---- MODULE Spec2Model ----
(***************************************************************************)
(* glife: the HashLife core (Cache, MacroCell, compute_result,             *)
(* from_square) as a state machine over one Cache.                         *)
(*                                                                         *)
(* Arrays keep the source's 0-based indices: a Rust array [a, b] is the    *)
(* function (0 :> a) @@ (1 :> b).  An Rc allocation is an index into the   *)
(* sequence rc (its address); a CachedMacroCellBranch is that index.       *)
(***************************************************************************)
EXTENDS Integers, Sequences, FiniteSets, TLC

\* ------------------------------------------------------------------------
\* Arrays
\* ------------------------------------------------------------------------

\* TLC keeps a function constructor unevaluated and re-evaluates its body at
\* every application; comparing it evaluates it once and for all.
Evaluated(f) == IF f = f THEN f ELSE f

Arr2(a, b) == [i \in 0..1 |-> IF i = 0 THEN a ELSE b]

Arr22(a, b, c, d) == Arr2(Arr2(a, b), Arr2(c, d))

\* ------------------------------------------------------------------------
\* state_buffer.rs: StateBufferView
\* ------------------------------------------------------------------------

\* A view: rows, cols, row_stride and the slice `view`, which is the buffer
\* buf from offset off on (&buf[off..]).
StateBufferView_new(buffer, rows, cols) ==
    [rows |-> rows, cols |-> cols, row_stride |-> cols, off |-> 0, buf |-> buffer]

\* sub_rectangle(r0..r1, c0..c1): the ranges are already normalized.
sub_rectangle(v, r0, r1, c0, c1) ==
    [rows |-> r1 - r0, cols |-> c1 - c0, row_stride |-> v.row_stride,
     off |-> v.off + r0 * v.row_stride + c0, buf |-> v.buf]

\* Index<(usize, usize)>: assert!(row < self.rows && col < self.cols)
index_in_bounds(v, row, col) == row < v.rows /\ col < v.cols

\* Index<(usize, usize)>: view[row * row_stride + col]
index(v, row, col) == v.buf[v.off + row * v.row_stride + col]

\* usize::is_power_of_two
is_power_of_two(n) == \E k \in 0..n : 2^k = n

\* ------------------------------------------------------------------------
\* macro_cell.rs: MacroCell, MacroCellLeaf, MacroCellBranch
\* ------------------------------------------------------------------------

\* MacroCell::Leaf(MacroCellLeaf { states })
Leaf(states) == [tag |-> "Leaf", states |-> states, ptr |-> 0]

\* MacroCell::Branch(CachedMacroCellBranch(rc)), ptr the address of the Rc
Branch(ptr) == [tag |-> "Branch", states |-> <<>>, ptr |-> ptr]

\* MacroCellBranch { branches }
MacroCellBranch(branches) == [branches |-> branches]

IsLeaf(c) == c.tag = "Leaf"

IsBranch(c) == c.tag = "Branch"

\* NEIGHBORS with its last offset on the cell itself
NEIGHBORS_centre ==
    << <<0, 0>>, <<1, 0>>, <<0, 1>>, <<2, 0>>, <<0, 2>>, <<2, 1>>, <<1, 2>>, <<1, 1>> >>

\* const NEIGHBORS inside compute_result
NEIGHBORS ==
    << <<0, 0>>, <<1, 0>>, <<0, 1>>, <<2, 0>>, <<0, 2>>, <<2, 1>>, <<1, 2>>, <<2, 2>> >>

\* next_state with survival on 3 neighbours only
next_state_s3(self_state, alive_neighbors) == alive_neighbors = 3

\* next_state with birth on 2 or 3 neighbours... and on none
next_state_b0(self_state, alive_neighbors) ==
    \/ (~self_state /\ alive_neighbors \in {0, 3})
    \/ (self_state /\ alive_neighbors \in 2..3)

\* the match (self_state, alive_neighbors) of the leaf closure
next_state(self_state, alive_neighbors) ==
    \/ (~self_state /\ alive_neighbors = 3)
    \/ (self_state /\ alive_neighbors \in 2..3)

\* The leaf_map closure of compute_result: four leaves -> the centre Leaf.
leaf_map(leaves) ==
    LET states == [i \in 0..3 |-> [j \in 0..3 |->
                     leaves[i \div 2][j \div 2].states[i % 2][j % 2]]]
        alive_neighbors(i, j) ==
            Cardinality({n \in DOMAIN NEIGHBORS :
                           states[i + NEIGHBORS[n][1]][j + NEIGHBORS[n][2]]})
    IN  Leaf([i \in 0..1 |-> [j \in 0..1 |->
               next_state(states[i + 1][j + 1], alive_neighbors(i, j))]])

\* ------------------------------------------------------------------------
\* cache.rs: Cache and CachedMacroCellBranch
\*
\* The operators below thread a record m through the calls, as the code
\* threads &mut Cache:
\*   rc        the Rc<MacroCellBranch> allocations, by address 1..Len(rc)
\*   result    Cache.result, the HashMap, as a function from its key Rcs
\*   computed  the records compute_result was invoked on, in call order
\*   active    the records whose compute_result has not returned yet
\*   reentered a record was passed to new_result while in active
\*   nested    <<s, t>>: new_result was called on a record of side t while
\*             compute_result of a record of side s had not returned
\*   hits      new_result calls answered from the HashMap
\*   panic     "" or the panic that unwound the call
\* ------------------------------------------------------------------------

NoPanic == ""

\* the value of an expression whose evaluation panicked; never used
Poison == Leaf(<<>>)

Panicked(m, why) == [m |-> [m EXCEPT !.panic = why], cell |-> Poison]

\* a HashMap keyed by the address of the Rc: no probe matches a key
MatchingKeys_by_address(m, branch) == {}

\* HashMap lookup through Borrow<MacroCellBranch>: Rc<T> hashes and compares
\* as T, so a key matches when the record it points to equals the probe.
\* (derive(PartialEq) on MacroCellBranch and MacroCell; the Branch variant
\* compares with Rc::ptr_eq.)
MatchingKeys(m, branch) == {k \in DOMAIN m.result : m.rc[k] = branch}

\* insert into a HashMap that holds 8 entries at most and drops the oldest
HashMap_insert_evicting(m, ptr, value) ==
    LET eq  == MatchingKeys(m, m.rc[ptr])
        ins == IF eq = {} THEN m.result @@ (ptr :> value)
               ELSE [k \in DOMAIN m.result |-> IF k \in eq THEN value ELSE m.result[k]]
        old == CHOOSE k \in DOMAIN ins : \A l \in DOMAIN ins : k <= l
    IN  IF Cardinality(DOMAIN ins) > 8 THEN [k \in DOMAIN ins \ {old} |-> ins[k]] ELSE ins

\* HashMap::insert(Rc::clone(&rc), value): an equal key keeps the old key
\* and has its value replaced.
HashMap_insert(m, ptr, value) ==
    LET eq == MatchingKeys(m, m.rc[ptr])
    IN  IF eq = {} THEN m.result @@ (ptr :> value)
        ELSE [k \in DOMAIN m.result |-> IF k \in eq THEN value ELSE m.result[k]]

\* result that returns the value inserted last, whatever the key
CachedMacroCellBranch_result_latest(ptr, m) ==
    IF m.panic # NoPanic THEN [m |-> m, cell |-> Poison]
    ELSE LET hit == MatchingKeys(m, m.rc[ptr])
         IN  IF hit = {} THEN Panicked(m, "index: key not found")
             ELSE [m |-> m,
                   cell |-> m.result[CHOOSE k \in DOMAIN m.result :
                                        \A l \in DOMAIN m.result : l <= k]]

\* CachedMacroCellBranch::result: cache.result[&self.0]
CachedMacroCellBranch_result(ptr, m) ==
    IF m.panic # NoPanic THEN [m |-> m, cell |-> Poison]
    ELSE LET hit == MatchingKeys(m, m.rc[ptr])
         IN  IF hit = {} THEN Panicked(m, "index: key not found")
             ELSE [m |-> m, cell |-> m.result[CHOOSE k \in hit : TRUE]]

\* Deref for CachedMacroCellBranch, then .branches[i][j]
branches_of(m, ptr) == m.rc[ptr].branches

RECURSIVE Side(_, _)
\* side length of a MacroCell: 2 for a Leaf, twice the top-left child's otherwise
Side(c, m) == IF IsLeaf(c) THEN 2 ELSE 2 * Side(branches_of(m, c.ptr)[0][0], m)

\* side length of a Branch record
RecordSide(branch, m) == 2 * Side(branch.branches[0][0], m)

\* the call of new_result on branch, entered in the history of m
Entered(branch, m) ==
    [m EXCEPT !.reentered = @ \/ (branch \in m.active),
              !.nested = @ \cup {<<RecordSide(a, m), RecordSide(branch, m)>> : a \in m.active}]

RECURSIVE new_result(_, _)
RECURSIVE compute_result(_, _)

\* horizontal_shift_result with the left half itself as its first quadrant
horizontal_shift_quadrants_whole_left(left, right, m) ==
    Arr22(Branch(left), branches_of(m, right)[0][0],
          branches_of(m, left)[1][1], branches_of(m, right)[1][0])

\* the quadrants horizontal_shift_result(left, right, cache) interns
horizontal_shift_quadrants(left, right, m) ==
    Arr22(branches_of(m, left)[0][1], branches_of(m, right)[0][0],
          branches_of(m, left)[1][1], branches_of(m, right)[1][0])

\* vertical_shift_result with the rows of the two halves exchanged
vertical_shift_quadrants_swapped(top, bottom, m) ==
    Arr22(branches_of(m, top)[0][0], branches_of(m, top)[0][1],
          branches_of(m, bottom)[1][0], branches_of(m, bottom)[1][1])

\* the quadrants vertical_shift_result(top, bottom, cache) interns
vertical_shift_quadrants(top, bottom, m) ==
    Arr22(branches_of(m, top)[1][0], branches_of(m, top)[1][1],
          branches_of(m, bottom)[0][0], branches_of(m, bottom)[0][1])

\* corner_shift_result one level too deep in its first quadrant
corner_shift_quadrants_deep(quadrants, m) ==
    LET c == branches_of(m, quadrants[0][0])[1][1]
    IN  Arr22(IF IsBranch(c) THEN branches_of(m, c.ptr)[1][1] ELSE c,
              branches_of(m, quadrants[0][1])[1][0],
              branches_of(m, quadrants[1][0])[0][1], branches_of(m, quadrants[1][1])[0][0])

\* the corner_quadrants corner_shift_result(quadrants, cache) interns
corner_shift_quadrants(quadrants, m) ==
    Arr22(branches_of(m, quadrants[0][0])[1][1], branches_of(m, quadrants[0][1])[1][0],
          branches_of(m, quadrants[1][0])[0][1], branches_of(m, quadrants[1][1])[0][0])

\* get_overlap_result that ignores j
overlap_quadrants_column0(shifted_results, i, j) ==
    Arr22(shifted_results[i][0], shifted_results[i][1],
          shifted_results[i + 1][0], shifted_results[i + 1][1])

\* the quadrants the closure get_overlap_result(i, j) interns
overlap_quadrants(shifted_results, i, j) ==
    Arr22(shifted_results[i][j], shifted_results[i][j + 1],
          shifted_results[i + 1][j], shifted_results[i + 1][j + 1])

\* The calls of the branch_map closure, in the order the array literals
\* evaluate them: the nine shifted_results, the four
\* overlapping_quadrants_results, the final new_result.
\* a and b index the closure's argument branches.
BranchMapCalls ==
    << [fn |-> "result",     a |-> <<0, 0>>, b |-> <<0, 0>>],
       [fn |-> "horizontal", a |-> <<0, 0>>, b |-> <<0, 1>>],
       [fn |-> "result",     a |-> <<0, 1>>, b |-> <<0, 1>>],
       [fn |-> "vertical",   a |-> <<0, 0>>, b |-> <<1, 0>>],
       [fn |-> "corner",     a |-> <<0, 0>>, b |-> <<0, 0>>],
       [fn |-> "vertical",   a |-> <<0, 1>>, b |-> <<1, 1>>],
       [fn |-> "result",     a |-> <<1, 0>>, b |-> <<1, 0>>],
       [fn |-> "horizontal", a |-> <<1, 0>>, b |-> <<1, 1>>],
       [fn |-> "result",     a |-> <<1, 1>>, b |-> <<1, 1>>],
       [fn |-> "overlap",    a |-> <<0, 0>>, b |-> <<0, 0>>],
       [fn |-> "overlap",    a |-> <<0, 1>>, b |-> <<0, 1>>],
       [fn |-> "overlap",    a |-> <<1, 0>>, b |-> <<1, 0>>],
       [fn |-> "overlap",    a |-> <<1, 1>>, b |-> <<1, 1>>],
       [fn |-> "final",      a |-> <<0, 0>>, b |-> <<0, 0>>] >>

RECURSIVE branch_map_from(_, _, _, _)

\* branch_map returning the final record's result instead of its handle
branch_map_after_result(k, branches, out, r) ==
    IF r.m.panic # NoPanic THEN [m |-> r.m, cell |-> Poison]
    ELSE IF BranchMapCalls[k].fn = "final" THEN [m |-> r.m, cell |-> r.cell]
    ELSE branch_map_from(k + 1, branches, r.m, Append(out, r.cell))

\* The branch_map closure after its k-th call returned r; out holds the
\* cells the calls before returned.  The final call's handle is the value
\* of the closure; every other call keeps the cell and drops the handle.
branch_map_after(k, branches, out, r) ==
    IF r.m.panic # NoPanic THEN [m |-> r.m, cell |-> Poison]
    ELSE IF BranchMapCalls[k].fn = "final" THEN [m |-> r.m, cell |-> Branch(r.handle)]
    ELSE branch_map_from(k + 1, branches, r.m, Append(out, r.cell))

\* branch_map with the final record's quadrants transposed
branch_map_from_transposed(k, branches, m, out) ==
    LET call == BranchMapCalls[k]
        at(p) == branches[p[1]][p[2]]
        shifted_results == [i \in 0..2 |-> [j \in 0..2 |-> out[3 * i + j + 1]]]
        quadrants ==
            CASE call.fn = "horizontal" -> horizontal_shift_quadrants(at(call.a), at(call.b), m)
              [] call.fn = "vertical"   -> vertical_shift_quadrants(at(call.a), at(call.b), m)
              [] call.fn = "corner"     -> corner_shift_quadrants(branches, m)
              [] call.fn = "overlap"    -> overlap_quadrants(shifted_results, call.a[1], call.a[2])
              [] call.fn = "final"      -> Arr22(out[10], out[12], out[11], out[13])
    IN  branch_map_after(k, branches, out,
            IF call.fn = "result"
            THEN CachedMacroCellBranch_result(at(call.a), m)
            ELSE new_result(MacroCellBranch(quadrants), m))

\* The branch_map closure from its k-th call on (out: 1..9 shifted_results
\* row by row, 10..13 overlapping_quadrants_results).  An fn of "result" is
\* branches[i][j].result(cache); every other call ends in
\* CachedMacroCellBranch::new_result on the quadrants it built.
branch_map_from(k, branches, m, out) ==
    LET call == BranchMapCalls[k]
        at(p) == branches[p[1]][p[2]]
        shifted_results == [i \in 0..2 |-> [j \in 0..2 |-> out[3 * i + j + 1]]]
        quadrants ==
            CASE call.fn = "horizontal" -> horizontal_shift_quadrants(at(call.a), at(call.b), m)
              [] call.fn = "vertical"   -> vertical_shift_quadrants(at(call.a), at(call.b), m)
              [] call.fn = "corner"     -> corner_shift_quadrants(branches, m)
              [] call.fn = "overlap"    -> overlap_quadrants(shifted_results, call.a[1], call.a[2])
              [] call.fn = "final"      -> Arr22(out[10], out[11], out[12], out[13])
    IN  branch_map_after(k, branches, out,
            IF call.fn = "result"
            THEN CachedMacroCellBranch_result(at(call.a), m)
            ELSE new_result(MacroCellBranch(quadrants), m))

\* The branch_map closure of compute_result; branches are the four handles.
branch_map(branches, m) == branch_map_from(1, branches, m, <<>>)

\* compute_result whose leaf arm interns the record of four dead Leaves first
compute_result_interning_leaves(branch, m) ==
    LET b == branch.branches
        all(P(_)) == P(b[0][0]) /\ P(b[0][1]) /\ P(b[1][0]) /\ P(b[1][1])
        dead == Leaf(Arr22(FALSE, FALSE, FALSE, FALSE))
        deads == MacroCellBranch(Arr22(dead, dead, dead, dead))
    IN  IF all(IsLeaf)
        THEN [m |-> IF branch = deads THEN m ELSE new_result(deads, m).m, cell |-> leaf_map(b)]
        ELSE IF all(IsBranch)
        THEN branch_map([i \in 0..1 |-> [j \in 0..1 |-> b[i][j].ptr]], m)
        ELSE Panicked(m, "unreachable: branch has mix of branches and leaves as children")

\* MacroCellBranch::map_branches applied to the two closures of compute_result
compute_result(branch, m) ==
    LET b == branch.branches
        all(P(_)) == P(b[0][0]) /\ P(b[0][1]) /\ P(b[1][0]) /\ P(b[1][1])
    IN  IF all(IsLeaf) THEN [m |-> m, cell |-> leaf_map(b)]
        ELSE IF all(IsBranch)
        THEN branch_map([i \in 0..1 |-> [j \in 0..1 |-> b[i][j].ptr]], m)
        ELSE Panicked(m, "unreachable: branch has mix of branches and leaves as children")

\* the else arm of new_result without cache.result.insert(..)
new_result_miss_uncached(branch, m0, r) ==
    LET ptr == Len(r.m.rc) + 1
        m1  == [r.m EXCEPT !.rc = Append(@, branch), !.active = m0.active]
    IN  IF r.m.panic # NoPanic
        THEN [m |-> r.m, handle |-> 0, cell |-> Poison]
        ELSE [m |-> m1, handle |-> ptr, cell |-> r.cell]

\* The else arm of new_result once compute_result returned r: m0 is the
\* cache at the call.  Rc::new(branch), cache.result.insert(..), (Self(rc), result)
new_result_miss(branch, m0, r) ==
    LET ptr == Len(r.m.rc) + 1
        m1  == [r.m EXCEPT !.rc = Append(@, branch), !.active = m0.active]
    IN  IF r.m.panic # NoPanic
        THEN [m |-> r.m, handle |-> 0, cell |-> Poison]
        ELSE [m |-> [m1 EXCEPT !.result = HashMap_insert(m1, ptr, r.cell)],
              handle |-> ptr, cell |-> r.cell]

\* new_result that answers a hit with a new Rc of the probe, not the key's
new_result_fresh_rc(branch, m) ==
    LET hit == MatchingKeys(m, branch)
        m0  == Entered(branch, m)
    IN  IF hit # {}
        THEN LET key == CHOOSE k \in hit : TRUE
             IN  [m |-> [m0 EXCEPT !.hits = @ + 1, !.rc = Append(@, branch)],
                  handle |-> Len(m.rc) + 1, cell |-> m.result[key]]
        ELSE new_result_miss(branch, m0,
                 compute_result(branch, [m0 EXCEPT !.computed = Append(@, branch),
                                                   !.active = @ \cup {branch}]))

\* new_result without the lookup: every call computes and inserts
new_result_always_computes(branch, m) ==
    new_result_miss(branch, Entered(branch, m),
        compute_result(branch, [Entered(branch, m) EXCEPT !.computed = Append(@, branch),
                                         !.active = @ \cup {branch}]))

\* CachedMacroCellBranch::new_result -> (Self, MacroCell) as handle, cell
new_result(branch, m) ==
    LET hit == MatchingKeys(m, branch)
        m0  == Entered(branch, m)
    IN  IF hit # {}
        THEN LET key == CHOOSE k \in hit : TRUE
             IN  [m |-> [m0 EXCEPT !.hits = @ + 1], handle |-> key, cell |-> m.result[key]]
        ELSE new_result_miss(branch, m0,
                 compute_result(branch, [m0 EXCEPT !.computed = Append(@, branch),
                                                   !.active = @ \cup {branch}]))

RECURSIVE from_square(_, _)
RECURSIVE from_square_branch(_, _, _, _)

\* the k-th sub_rectangle of from_square, in the order of the array literal:
\* (..cut, ..cut), (..cut, cut..), (cut.., ..cut), (cut.., cut..)
quadrant_view(square, k) ==
    LET cut == square.rows \div 2
        r0  == IF k \in {0, 1} THEN 0 ELSE cut
        c0  == IF k \in {0, 2} THEN 0 ELSE cut
    IN  sub_rectangle(square, r0, r0 + cut, c0, c0 + cut)
\* (cut.. ends at rows and cols, which are 2 * cut here)

\* the else arm of from_square after its k-th recursive call returned q
from_square_after(square, k, cells, q) ==
    IF q.m.panic # NoPanic THEN [m |-> q.m, cell |-> Poison]
    ELSE from_square_branch(square, k + 1, q.m, Append(cells, q.cell))

\* the last statement of from_square: Self::Branch(branch) of new_result's pair
from_square_return(nr) ==
    IF nr.m.panic # NoPanic THEN [m |-> nr.m, cell |-> Poison]
    ELSE [m |-> nr.m, cell |-> Branch(nr.handle)]

\* The else arm of from_square from the k-th quadrant on; cells are the
\* quadrants built so far.
from_square_branch(square, k, m, cells) ==
    IF k < 4
    THEN from_square_after(square, k, cells, from_square(quadrant_view(square, k), m))
    ELSE from_square_return(
             new_result(MacroCellBranch(Arr22(cells[1], cells[2], cells[3], cells[4])), m))

\* from_square without assert!(square.rows() == square.cols())
from_square_any_cols(square, m) ==
    IF m.panic # NoPanic THEN [m |-> m, cell |-> Poison]
    ELSE IF ~(is_power_of_two(square.rows) /\ square.rows >= 2)
    THEN Panicked(m, "assertion failed: square.rows().is_power_of_two() && square.rows >= 2")
    ELSE IF square.rows = 2
    THEN IF \A i \in 0..1, j \in 0..1 : index_in_bounds(square, i, j)
         THEN [m |-> m,
               cell |-> Leaf(Arr22(index(square, 0, 0), index(square, 0, 1),
                                   index(square, 1, 0), index(square, 1, 1)))]
         ELSE Panicked(m, "assertion failed: row < self.rows && col < self.cols")
    ELSE from_square_branch(square, 0, m, <<>>)

\* MacroCell::from_square(square, cache)
from_square(square, m) ==
    IF m.panic # NoPanic THEN [m |-> m, cell |-> Poison]
    ELSE IF ~(square.rows = square.cols)
    THEN Panicked(m, "assertion failed: square.rows() == square.cols()")
    ELSE IF ~(is_power_of_two(square.rows) /\ square.rows >= 2)
    THEN Panicked(m, "assertion failed: square.rows().is_power_of_two() && square.rows >= 2")
    ELSE IF square.rows = 2
    THEN IF \A i \in 0..1, j \in 0..1 : index_in_bounds(square, i, j)
         THEN [m |-> m,
               cell |-> Leaf(Arr22(index(square, 0, 0), index(square, 0, 1),
                                   index(square, 1, 0), index(square, 1, 1)))]
         ELSE Panicked(m, "assertion failed: row < self.rows && col < self.cols")
    ELSE from_square_branch(square, 0, m, <<>>)

\* ------------------------------------------------------------------------
\* The evaluator with the elements of its array literals taken in an order
\* o: o.quadrants the order of the four sub_rectangles of from_square (0..3),
\* o.calls the order of the calls of branch_map (indices of BranchMapCalls:
\* the nine shifted_results, then the four overlapping_quadrants_results,
\* then the final new_result).  Every value takes the place it has in the
\* source, whenever it is computed.
\* ------------------------------------------------------------------------

\* the order of the source
SourceOrder == [quadrants |-> <<0, 1, 2, 3>>,
                calls |-> <<1, 2, 3, 4, 5, 6, 7, 8, 9, 10, 11, 12, 13, 14>>]

RECURSIVE new_result_in(_, _, _)
RECURSIVE compute_result_in(_, _, _)
RECURSIVE branch_map_in_from(_, _, _, _, _)
RECURSIVE from_square_in(_, _, _)
RECURSIVE from_square_branch_in(_, _, _, _, _)

\* branch_map after its n-th call in the order o returned r; out maps the
\* index of a call to the cell it returned
branch_map_in_after(o, n, branches, out, r) ==
    IF r.m.panic # NoPanic THEN [m |-> r.m, cell |-> Poison]
    ELSE IF BranchMapCalls[o.calls[n]].fn = "final" THEN [m |-> r.m, cell |-> Branch(r.handle)]
    ELSE branch_map_in_from(o, n + 1, branches, r.m, out @@ (o.calls[n] :> r.cell))

\* branch_map from its n-th call in the order o on
branch_map_in_from(o, n, branches, m, out) ==
    LET call == BranchMapCalls[o.calls[n]]
        at(p) == branches[p[1]][p[2]]
        shifted_results == [i \in 0..2 |-> [j \in 0..2 |-> out[3 * i + j + 1]]]
        quadrants ==
            CASE call.fn = "horizontal" -> horizontal_shift_quadrants(at(call.a), at(call.b), m)
              [] call.fn = "vertical"   -> vertical_shift_quadrants(at(call.a), at(call.b), m)
              [] call.fn = "corner"     -> corner_shift_quadrants(branches, m)
              [] call.fn = "overlap"    -> overlap_quadrants(shifted_results, call.a[1], call.a[2])
              [] call.fn = "final"      -> Arr22(out[10], out[11], out[12], out[13])
    IN  branch_map_in_after(o, n, branches, out,
            IF call.fn = "result"
            THEN CachedMacroCellBranch_result(at(call.a), m)
            ELSE new_result_in(o, MacroCellBranch(quadrants), m))

\* compute_result, its branch_map in the order o
compute_result_in(o, branch, m) ==
    LET b == branch.branches
        all(P(_)) == P(b[0][0]) /\ P(b[0][1]) /\ P(b[1][0]) /\ P(b[1][1])
    IN  IF all(IsLeaf) THEN [m |-> m, cell |-> leaf_map(b)]
        ELSE IF all(IsBranch)
        THEN branch_map_in_from(o, 1, [i \in 0..1 |-> [j \in 0..1 |-> b[i][j].ptr]], m, <<>>)
        ELSE Panicked(m, "unreachable: branch has mix of branches and leaves as children")

\* new_result, its compute_result in the order o
new_result_in(o, branch, m) ==
    LET hit == MatchingKeys(m, branch)
        m0  == Entered(branch, m)
    IN  IF hit # {}
        THEN LET key == CHOOSE k \in hit : TRUE
             IN  [m |-> [m0 EXCEPT !.hits = @ + 1], handle |-> key, cell |-> m.result[key]]
        ELSE new_result_miss(branch, m0,
                 compute_result_in(o, branch, [m0 EXCEPT !.computed = Append(@, branch),
                                                         !.active = @ \cup {branch}]))

\* the else arm of from_square after its n-th recursive call in the order o
\* returned q; cells maps the index of a quadrant to its cell
from_square_in_after(o, n, square, cells, q) ==
    IF q.m.panic # NoPanic THEN [m |-> q.m, cell |-> Poison]
    ELSE from_square_branch_in(o, n + 1, square, q.m, cells @@ (o.quadrants[n] :> q.cell))

\* the else arm of from_square from its n-th recursive call in the order o on
from_square_branch_in(o, n, square, m, cells) ==
    IF n <= 4
    THEN from_square_in_after(o, n, square, cells,
             from_square_in(o, quadrant_view(square, o.quadrants[n]), m))
    ELSE from_square_return(
             new_result_in(o, MacroCellBranch(Arr22(cells[0], cells[1], cells[2], cells[3])), m))

\* from_square, its quadrants and its evaluator in the order o
from_square_in(o, square, m) ==
    IF m.panic # NoPanic THEN [m |-> m, cell |-> Poison]
    ELSE IF ~(square.rows = square.cols)
    THEN Panicked(m, "assertion failed: square.rows() == square.cols()")
    ELSE IF ~(is_power_of_two(square.rows) /\ square.rows >= 2)
    THEN Panicked(m, "assertion failed: square.rows().is_power_of_two() && square.rows >= 2")
    ELSE IF square.rows = 2
    THEN IF \A i \in 0..1, j \in 0..1 : index_in_bounds(square, i, j)
         THEN [m |-> m,
               cell |-> Leaf(Arr22(index(square, 0, 0), index(square, 0, 1),
                                   index(square, 1, 0), index(square, 1, 1)))]
         ELSE Panicked(m, "assertion failed: row < self.rows && col < self.cols")
    ELSE from_square_branch_in(o, 1, square, m, <<>>)

\* MacroCell::result -> Option<MacroCell>
None == [some |-> FALSE, value |-> Poison]

Some(c) == [some |-> TRUE, value |-> c]

\* result that takes the entry out of the HashMap (HashMap::remove)
MacroCell_result_take(c, m) ==
    IF IsLeaf(c) THEN [m |-> m, opt |-> None]
    ELSE LET r == CachedMacroCellBranch_result(c.ptr, m)
             hit == MatchingKeys(m, m.rc[c.ptr])
         IN  [m |-> [r.m EXCEPT !.result = [k \in DOMAIN @ \ hit |-> @[k]]],
              opt |-> IF r.m.panic # NoPanic THEN None ELSE Some(r.cell)]

\* result that evaluates on demand, through new_result
MacroCell_result_on_demand(c, m) ==
    IF IsLeaf(c) THEN [m |-> m, opt |-> None]
    ELSE LET r == new_result(m.rc[c.ptr], m)
         IN  [m |-> r.m, opt |-> IF r.m.panic # NoPanic THEN None ELSE Some(r.cell)]

\* result with a Leaf taken for its own result
MacroCell_result_leaf_itself(c, m) ==
    IF IsLeaf(c) THEN [m |-> m, opt |-> Some(c)]
    ELSE LET r == CachedMacroCellBranch_result(c.ptr, m)
         IN  [m |-> r.m, opt |-> IF r.m.panic # NoPanic THEN None ELSE Some(r.cell)]

MacroCell_result(c, m) ==
    IF IsLeaf(c) THEN [m |-> m, opt |-> None]
    ELSE LET r == CachedMacroCellBranch_result(c.ptr, m)
         IN  [m |-> r.m, opt |-> IF r.m.panic # NoPanic THEN None ELSE Some(r.cell)]

\* Cache::new
Cache_new == [rc |-> <<>>, result |-> <<>>, computed |-> <<>>, active |-> {},
              reentered |-> FALSE, nested |-> {}, hits |-> 0, panic |-> NoPanic]

\* ------------------------------------------------------------------------
\* Grids
\* ------------------------------------------------------------------------

\* a square buffer of side n from its set of live cells <<row, col>>
Buffer(n, live) == [k \in 0..(n * n - 1) |-> <<k \div n, k % n>> \in live]

Square(n, live) == StateBufferView_new(Buffer(n, live), n, n)

\* the cells of a view, as rows of columns
ViewGrid(v) ==
    Evaluated([r \in 0..(v.rows - 1) |-> [c \in 0..(v.cols - 1) |-> index(v, r, c)]])

\* a grid of side n as a view over a fresh buffer
GridView(G, n) == StateBufferView_new([k \in 0..(n * n - 1) |-> G[k \div n][k % n]], n, n)

RECURSIVE Depths(_, _)
\* the numbers of Branch levels between a MacroCell and the leaves below it
Depths(c, m) ==
    IF IsLeaf(c) THEN {0}
    ELSE {d + 1 : d \in UNION {Depths(branches_of(m, c.ptr)[i][j], m) : i \in 0..1, j \in 0..1}}

RECURSIVE Grid(_, _)
\* the cell grid a MacroCell represents
Grid(c, m) ==
    IF IsLeaf(c) THEN c.states
    ELSE LET b == branches_of(m, c.ptr)
             h == Side(b[0][0], m)
             g == [i \in 0..1 |-> [j \in 0..1 |-> Grid(b[i][j], m)]]
         IN  [r \in 0..(2 * h - 1) |-> [c2 \in 0..(2 * h - 1) |->
                g[r \div h][c2 \div h][r % h][c2 % h]]]

\* the grid a Branch record (not yet a handle) represents
RecordGrid(branch, m) ==
    LET b == branch.branches
        h == Side(b[0][0], m)
        g == [i \in 0..1 |-> [j \in 0..1 |-> Grid(b[i][j], m)]]
    IN  [r \in 0..(2 * h - 1) |-> [c2 \in 0..(2 * h - 1) |->
           g[r \div h][c2 \div h][r % h][c2 % h]]]

\* ------------------------------------------------------------------------
\* Reference: B3/S23 on the plane, every cell outside the grid dead
\* ------------------------------------------------------------------------

Offsets == {d \in (-1..1) \X (-1..1) : d # <<0, 0>>}

AliveAt(G, n, r, c) == r \in 0..(n - 1) /\ c \in 0..(n - 1) /\ G[r][c]

LiveNeighbours(G, n, r, c) ==
    Cardinality({d \in Offsets : AliveAt(G, n, r + d[1], c + d[2])})

\* one generation of a grid of side n; cells outside it are and stay dead
LifeStep(G, n) ==
    Evaluated([r \in 0..(n - 1) |-> [c \in 0..(n - 1) |->
       LET k == LiveNeighbours(G, n, r, c)
       IN  IF G[r][c] THEN k = 2 \/ k = 3 ELSE k = 3]])

RECURSIVE Generations(_, _, _)
Generations(G, n, k) == IF k = 0 THEN G ELSE Generations(LifeStep(G, n), n, k - 1)

\* G of side n with a dead margin of width k
Pad(G, n, k) ==
    Evaluated([r \in 0..(n + 2 * k - 1) |-> [c \in 0..(n + 2 * k - 1) |->
       AliveAt(G, n, r - k, c - k)]])

\* the sub-square of side w at (r0, c0)
Crop(G, r0, c0, w) == [r \in 0..(w - 1) |-> [c \in 0..(w - 1) |-> G[r + r0][c + c0]]]

\* the central square of side n/2 of S (side n) after k generations on the plane
expected_center(S, n, k) ==
    Crop(Generations(Pad(S, n, k), n + 2 * k, k), k + n \div 4, k + n \div 4, n \div 2)


\* ------------------------------------------------------------------------
\* Inputs
\* ------------------------------------------------------------------------

\* from_square calls of one run
MaxCalls == 2

\* result calls of one run
MaxResults == 2

\* sides of the ill-shaped views: rows, cols in 0..MaxBadSide
MaxBadSide == 3

\* generations the client's own reference run advances a square by, at most
MaxGens == 4

Dead == {}

Diagonal2 == {<<0, 0>>, <<1, 1>>}

Tee4 == {<<0, 1>>, <<1, 0>>, <<1, 1>>, <<1, 2>>, <<3, 3>>}

\* tests::block_pattern
Block8 == {<<3, 3>>, <<3, 4>>, <<4, 3>>, <<4, 4>>}

\* tests::beehive_pattern
Beehive8 == {<<2, 3>>, <<2, 4>>, <<3, 2>>, <<3, 5>>, <<4, 3>>, <<4, 4>>}

\* tests::loaf_pattern
Loaf8 == {<<2, 3>>, <<2, 4>>, <<3, 2>>, <<3, 5>>, <<4, 3>>, <<4, 5>>, <<5, 4>>}

\* tests::pond_pattern
Pond8 == {<<2, 3>>, <<2, 4>>, <<3, 2>>, <<3, 5>>, <<4, 2>>, <<4, 5>>, <<5, 3>>, <<5, 4>>}

Block4 == {<<1, 1>>, <<1, 2>>, <<2, 1>>, <<2, 2>>}

Corner4 == {<<0, 0>>, <<0, 1>>, <<1, 0>>, <<2, 2>>, <<2, 3>>, <<3, 2>>}

Glider8 == {<<1, 2>>, <<2, 3>>, <<3, 1>>, <<3, 2>>, <<3, 3>>, <<6, 6>>, <<6, 7>>, <<7, 6>>}

RPentomino8 == {<<2, 4>>, <<2, 5>>, <<3, 3>>, <<3, 4>>, <<4, 4>>, <<0, 0>>, <<5, 1>>}

\* tests::ship_tie_pattern
ShipTie16 ==
    {<<5, 9>>, <<5, 10>>, <<6, 8>>, <<6, 10>>, <<7, 8>>, <<7, 9>>,
     <<8, 6>>, <<8, 7>>, <<9, 5>>, <<9, 7>>, <<10, 5>>, <<10, 6>>}

Glider16 ==
    {<<3, 4>>, <<4, 5>>, <<5, 3>>, <<5, 4>>, <<5, 5>>,
     <<9, 9>>, <<9, 10>>, <<9, 11>>, <<10, 9>>, <<11, 10>>, <<2, 12>>, <<12, 2>>}

RPentomino16 ==
    {<<6, 8>>, <<6, 9>>, <<7, 7>>, <<7, 8>>, <<8, 8>>,
     <<3, 3>>, <<3, 4>>, <<4, 3>>, <<4, 4>>, <<11, 12>>, <<12, 11>>, <<12, 12>>, <<12, 13>>}

\* the well-shaped squares a client passes to from_square
Squares ==
    {Square(2, Diagonal2), Square(4, Tee4), Square(8, Dead), Square(8, Glider8),
     Square(16, ShipTie16)}

\* the squares of the assert_result runs: those of the tests and others
TestSquares ==
    Squares \cup
    {Square(4, Dead), Square(4, Block4), Square(4, Corner4),
     Square(8, Block8), Square(8, Beehive8), Square(8, Loaf8), Square(8, Pond8),
     Square(8, RPentomino8),
     Square(16, Dead), Square(16, Glider16), Square(16, RPentomino16)}

\* the squares a Cache was used for before an assert_result run
WarmSquares == {Square(8, RPentomino8), Square(16, Glider16)}

\* views from_square rejects: not square, or side no power of two, or side < 2
BadViews ==
    {StateBufferView_new([k \in 0..(r * c - 1) |-> k % 3 = 0], r, c) :
       <<r, c>> \in {p \in (0..MaxBadSide) \X (0..MaxBadSide) :
                       ~(p[1] = p[2] /\ is_power_of_two(p[1]) /\ p[1] >= 2)}}

NoSquare == StateBufferView_new(<<>>, 0, 0)

\* ------------------------------------------------------------------------
\* The client of one Cache (tests::assert_result, generalised)
\* ------------------------------------------------------------------------

VARIABLES
    cache,      \* the Cache, its Rc allocations and the call history (record m)
    square,     \* the view of the last from_square call
    world,      \* what that call returned: Some(MacroCell), None once it panicked
    arg,        \* the receiver of the last result call, None before the first
    res,        \* what that call returned
    world_buf,  \* the view arg was built from when arg was world, else NoSquare
    op,         \* the last operation
    again,      \* the last result call had the receiver of the one before
    calls,      \* from_square calls so far
    results,    \* result calls so far
    other       \* a second, independent client: its Cache, and the view,
                \* the returned MacroCell and the name of its last from_square

vars == <<cache, square, world, arg, res, world_buf, op, again, calls, results, other>>

\* let mut cache = Cache::new() of the second client; order is the order in
\* which its evaluator takes the elements of the array literals
Other_new == [cache |-> Cache_new, square |-> NoSquare, world |-> None, op |-> "new",
              order |-> SourceOrder]

Init ==
    /\ cache = Cache_new
    /\ square = NoSquare
    /\ world = None
    /\ arg = None
    /\ res = None
    /\ world_buf = NoSquare
    /\ op = "new"
    /\ again = FALSE
    /\ calls = 0
    /\ results = 0
    /\ other = Other_new

\* the run goes on until a call panics or the client has compared the
\* result with the expected cell (assert_eq!(result, expected))
Running == cache.panic = NoPanic /\ op # "expected"

\* let world = MacroCell::from_square(view, &mut cache)
Call(view, name) ==
    LET r == from_square(view, cache)
    IN  /\ cache' = r.m
        /\ square' = view
        /\ world' = IF r.m.panic # NoPanic THEN None ELSE Some(r.cell)
        /\ op' = name
        /\ UNCHANGED <<arg, res, world_buf, again, other>>

FromSquare ==
    /\ Running
    /\ calls < MaxCalls
    /\ \E view \in Squares \cup BadViews :
          /\ Call(view, "from_square")
          /\ calls' = calls + 1
          /\ UNCHANGED results

\* the generations the client evolves a square of side n by on its own:
\* none, the evaluator's n/4, and n/2
Gens(n) == {0, n \div 4, n \div 2} \cap (0..MaxGens)

\* let expected = MacroCell::from_square(expected_buf.view(), &mut cache),
\* expected_buf the centre of the square whose root result was just taken
FromSquareExpected ==
    /\ Running
    /\ op = "result"
    /\ world_buf # NoSquare
    /\ world_buf.rows >= 4
    /\ \E k \in Gens(world_buf.rows) :
          Call(GridView(expected_center(ViewGrid(world_buf), world_buf.rows, k),
                        world_buf.rows \div 2), "expected")
    /\ UNCHANGED <<calls, results>>

\* the cells the client holds: the last root and the last result
ClientCells == {o.value : o \in {o \in {world, res} : o.some}}

\* let result = c.result(&cache)
CallResult(c) ==
    LET r == MacroCell_result(c, cache)
    IN  /\ cache' = r.m
        /\ arg' = Some(c)
        /\ res' = r.opt
        /\ world_buf' = IF world = Some(c) THEN square ELSE NoSquare
        /\ again' = (arg = Some(c))
        /\ op' = "result"
        /\ results' = results + 1
        /\ UNCHANGED <<square, world, calls, other>>

Result ==
    /\ Running
    /\ results < MaxResults
    /\ \E c \in ClientCells : CallResult(c)

Next == FromSquare \/ FromSquareExpected \/ Result

Spec == Init /\ [][Next]_vars

\* ------------------------------------------------------------------------
\* tests::assert_result, on a fresh Cache or on one used before
\* ------------------------------------------------------------------------

AssertWarm ==
    /\ op = "new"
    /\ \E view \in WarmSquares :
          /\ Call(view, "warm")
          /\ calls' = calls + 1
          /\ UNCHANGED results

\* let world = MacroCell::from_square(world_buf.view(), &mut cache)
AssertWorld ==
    /\ op \in {"new", "warm"}
    /\ \E view \in TestSquares :
          /\ Call(view, "from_square")
          /\ calls' = calls + 1
          /\ UNCHANGED results

\* let result = world.result(&cache).unwrap()
AssertResult ==
    /\ op = "from_square"
    /\ world.some
    /\ IsBranch(world.value)
    /\ CallResult(world.value)

\* let expected = MacroCell::from_square(expected_buf.view(), &mut cache)
AssertExpected ==
    /\ op = "result"
    /\ \E k \in Gens(world_buf.rows) :
          Call(GridView(expected_center(ViewGrid(world_buf), world_buf.rows, k),
                        world_buf.rows \div 2), "expected")
    /\ UNCHANGED <<calls, results>>

AssertNext == AssertWarm \/ AssertWorld \/ AssertResult \/ AssertExpected

AssertSpec == Init /\ [][AssertNext]_vars

\* ------------------------------------------------------------------------
\* MacroCell::result on any MacroCell of a fresh or a used Cache
\* ------------------------------------------------------------------------

\* every MacroCell::Leaf
AllLeaves == {Leaf(Arr22(a, b, c, d)) : a, b, c, d \in BOOLEAN}

ResultWarm ==
    /\ op = "new"
    /\ \E view \in Squares :
          /\ Call(view, "warm")
          /\ calls' = calls + 1
          /\ UNCHANGED results

\* c.result(&cache), c any Leaf or any Branch interned in the Cache
ResultAny ==
    /\ op \in {"new", "warm"}
    /\ \E c \in AllLeaves \cup {Branch(h) : h \in 1..Len(cache.rc)} : CallResult(c)

ResultNext == ResultWarm \/ ResultAny

ResultSpec == Init /\ [][ResultNext]_vars

\* ------------------------------------------------------------------------
\* Two clients, each with a Cache of its own
\* ------------------------------------------------------------------------

\* the 8x8 window at (4, 4) of a 16x16 buffer: the cells of Glider8 inside,
\* other live cells outside
Glider8Window ==
    sub_rectangle(Square(16, {<<p[1] + 4, p[2] + 4>> : p \in Glider8}
                                \cup {<<0, 0>>, <<3, 8>>, <<8, 12>>, <<15, 15>>}),
                  4, 12, 4, 12)

\* the squares of the two clients
TwoSquares == {Square(4, Tee4), Square(8, Glider8), Glider8Window, Square(16, ShipTie16)}

\* MacroCell::from_square(view, &mut cache) of the first client: at most
\* one call before the one that builds its world
TwoCache ==
    \E name \in {"warm", "from_square"} :
        /\ op \in (IF name = "warm" THEN {"new"} ELSE {"new", "warm"})
        /\ \E view \in TwoSquares : Call(view, name)
        /\ UNCHANGED <<calls, results>>

\* the same of the second client, on its own Cache
TwoOther ==
    \E name \in {"warm", "from_square"} :
        /\ other.op \in (IF name = "warm" THEN {"new"} ELSE {"new", "warm"})
        /\ \E view \in TwoSquares :
              LET r == from_square(view, other.cache)
              IN  other' = [cache  |-> r.m,
                            square |-> view,
                            world  |-> IF r.m.panic # NoPanic THEN None ELSE Some(r.cell),
                            op     |-> name,
                            order  |-> other.order]
        /\ UNCHANGED <<cache, square, world, arg, res, world_buf, op, again, calls, results>>

TwoNext == TwoCache \/ TwoOther

TwoSpec == Init /\ [][TwoNext]_vars

\* ------------------------------------------------------------------------
\* One square, evaluated in the order of the source on one Cache and in
\* another order on a second Cache
\* ------------------------------------------------------------------------

\* the orders of the elements of S
Perms(S) == {p \in [1..Cardinality(S) -> S] : \A i, j \in DOMAIN p : p[i] = p[j] => i = j}

Reverse(s) == [k \in DOMAIN s |-> s[Len(s) + 1 - k]]

\* s with its elements i and i + 1 exchanged
Exchange(s, i) ==
    [k \in DOMAIN s |-> IF k = i THEN s[i + 1] ELSE IF k = i + 1 THEN s[i] ELSE s[k]]

\* s begun at its element r + 1
Rotate(s, r) == [k \in DOMAIN s |-> s[((k - 1 + r) % Len(s)) + 1]]

\* orders of the nine shifted_results: the source's, its reverse, each
\* exchange of two neighbours, each rotation
ShiftedOrders ==
    LET id == <<1, 2, 3, 4, 5, 6, 7, 8, 9>>
    IN  {id, Reverse(id)} \cup {Exchange(id, i) : i \in 1..8} \cup {Rotate(id, r) : r \in 1..8}

\* the orders of the evaluator: every order of the quadrants, every order of
\* the overlapping_quadrants_results, the orders above of the
\* shifted_results, and all three reversed
Orders ==
    LET q0 == <<0, 1, 2, 3>>
        s0 == <<1, 2, 3, 4, 5, 6, 7, 8, 9>>
        v0 == <<10, 11, 12, 13>>
        order(q, sh, v) == [quadrants |-> q, calls |-> sh \o v \o <<14>>]
    IN  {order(q, s0, v0) : q \in Perms(0..3)}
          \cup {order(q0, sh, v0) : sh \in ShiftedOrders}
          \cup {order(q0, s0, v) : v \in Perms(10..13)}
          \cup {order(Reverse(q0), Reverse(s0), Reverse(v0))}

OrderSquares ==
    {Square(4, Tee4), Square(8, Glider8), Square(8, RPentomino8), Square(16, ShipTie16)}

\* MacroCell::from_square(view, &mut cache), as the source orders it
OrderSource ==
    /\ op = "new"
    /\ \E view \in OrderSquares : Call(view, "from_square")
    /\ UNCHANGED <<calls, results>>

\* the same call on a fresh Cache, its evaluator in an order o
OrderOther ==
    /\ op = "from_square"
    /\ other.op = "new"
    /\ \E o \in Orders :
          LET r == from_square_in(o, square, other.cache)
          IN  other' = [cache  |-> r.m,
                        square |-> square,
                        world  |-> IF r.m.panic # NoPanic THEN None ELSE Some(r.cell),
                        op     |-> "from_square",
                        order  |-> o]
    /\ UNCHANGED <<cache, square, world, arg, res, world_buf, op, again, calls, results>>

OrderNext == OrderSource \/ OrderOther

OrderSpec == Init /\ [][OrderNext]_vars

\* ------------------------------------------------------------------------
\* compute_result on every record of four Leaves
\* ------------------------------------------------------------------------

\* every 4x4 bitmap
LeafInit ==
    /\ cache = Cache_new
    /\ square \in {StateBufferView_new(b, 4, 4) : b \in [0..15 -> BOOLEAN]}
    /\ world = None
    /\ arg = None
    /\ res = None
    /\ world_buf = NoSquare
    /\ op = "new"
    /\ again = FALSE
    /\ calls = 0
    /\ results = 0
    /\ other = Other_new

\* the record from_square builds for the bitmap, and compute_result on it
ComputeLeaves ==
    /\ op = "new"
    /\ LET leaf(k) == from_square(quadrant_view(square, k), cache).cell
           branch  == MacroCellBranch(Arr22(leaf(0), leaf(1), leaf(2), leaf(3)))
           r       == compute_result(branch, cache)
       IN  /\ cache' = r.m
           /\ res' = Some(r.cell)
    /\ op' = "compute_result"
    /\ UNCHANGED <<square, world, arg, world_buf, again, calls, results, other>>

LeafNext == ComputeLeaves

LeafSpec == LeafInit /\ [][LeafNext]_vars

\* ------------------------------------------------------------------------
\* Properties
\* ------------------------------------------------------------------------

\* the last result call was on the root from_square built from world_buf,
\* a square of side >= 4
ResultOfRoot == world_buf # NoSquare /\ world_buf.rows >= 4

\* the client's expected square: the centre of world_buf after k generations
Expected(k) ==
    GridView(expected_center(ViewGrid(world_buf), world_buf.rows, k), world_buf.rows \div 2)

\* the unevolved central sub-square of world_buf
Centre == Crop(ViewGrid(world_buf), world_buf.rows \div 4, world_buf.rows \div 4,
               world_buf.rows \div 2)

AnyAlive(G) == \E r \in DOMAIN G : \E c \in DOMAIN G[r] : G[r][c]

\* C1: the result of the root built from a square S of side s >= 4, on a
\* fresh or a used Cache, is the central s/2 x s/2 region of S after
\* 2^(depth-1) = s/4 generations of B3/S23, depth the root's Branch levels.
C1_ResultIsEvolvedCentre ==
    ResultOfRoot =>
        /\ res.some
        /\ \A depth \in Depths(arg.value, cache) : 2^(depth - 1) = world_buf.rows \div 4
        /\ Grid(res.value, cache)
             = expected_center(ViewGrid(world_buf), world_buf.rows, world_buf.rows \div 4)

C1_Witness ==
    /\ ResultOfRoot
    /\ op = "result"
    /\ calls = 2
    /\ world_buf = Square(16, Glider16)
    /\ AnyAlive(Grid(res.value, cache))
    /\ Grid(res.value, cache) # Centre

\* C2: compute_result on a record of four Leaves (a 4x4 bitmap s) returns
\* the Leaf whose cell (i, j) is alive iff s[i+1][j+1] is alive with 2 or 3
\* live neighbours in s, or dead with exactly 3.
C2_LeafRule ==
    op = "compute_result" =>
        /\ res.some
        /\ cache.panic = NoPanic
        /\ IsLeaf(res.value)
        /\ \A i \in 0..1, j \in 0..1 :
              LET s == ViewGrid(square)
                  k == LiveNeighbours(s, 4, i + 1, j + 1)
              IN  res.value.states[i][j]
                    <=> \/ (s[i + 1][j + 1] /\ k \in {2, 3})
                        \/ (~s[i + 1][j + 1] /\ k = 3)

C2_Witness ==
    /\ op = "compute_result"
    /\ square = Square(4, {<<0, 1>>, <<1, 1>>, <<2, 1>>, <<1, 2>>, <<2, 3>>, <<3, 3>>})
    /\ res.value.states # Crop(ViewGrid(square), 1, 1, 2)

\* every Rc<MacroCellBranch> allocated so far
Handles == 1..Len(cache.rc)

\* C3: two Branch MacroCells of one Cache are the same handle iff they
\* represent the same cell grid (of the same side), and no two keys of the
\* HashMap point to equal records.
C3_CanonicalIdentity ==
    LET g == Evaluated([h \in Handles |-> Grid(Branch(h), cache)])
    IN  /\ \A a, b \in DOMAIN cache.result : cache.rc[a] = cache.rc[b] => a = b
        /\ \A a, b \in Handles : (a = b) <=> (g[a] = g[b])

C3_Witness ==
    /\ op = "expected"
    /\ world_buf = Square(16, ShipTie16)
    /\ square = Expected(4)
    /\ res = world
    /\ IsBranch(world.value)

\* C4: compute_result is invoked at most once for each distinct record (and
\* for each distinct grid), every other new_result is answered from the
\* HashMap, and no record is requested while its own compute_result runs.
C4_AtMostOnceCompute ==
    LET n == Len(cache.computed)
        g == Evaluated([i \in 1..n |-> RecordGrid(cache.computed[i], cache)])
    IN  /\ \A i, j \in 1..n : cache.computed[i] = cache.computed[j] => i = j
        /\ \A i, j \in 1..n : g[i] = g[j] => i = j
        /\ ~cache.reentered
        /\ cache.panic = NoPanic => n = Cardinality(DOMAIN cache.result)

C4_Witness ==
    /\ calls = 2
    /\ op = "from_square"
    /\ square = Square(16, ShipTie16)
    /\ cache.hits > 20
    /\ Len(cache.computed) > 20

\* C5: the stored result of every Branch in the Cache, and the value result
\* returns, has half the side of the Branch: a Leaf for a Branch of Leaves,
\* a Branch one level lower otherwise.
C5_SideHalving ==
    /\ \A k \in DOMAIN cache.result :
          LET d == Depths(Branch(k), cache)
              e == Depths(cache.result[k], cache)
          IN  /\ Cardinality(d) = 1
              /\ e = {x - 1 : x \in d}
              /\ IsLeaf(cache.result[k]) <=> IsLeaf(cache.rc[k].branches[0][0])
    /\ (arg.some /\ IsBranch(arg.value) /\ cache.panic = NoPanic) =>
          /\ res.some
          /\ Depths(res.value, cache) = {x - 1 : x \in Depths(arg.value, cache)}

C5_Witness ==
    /\ op = "result"
    /\ IsBranch(arg.value)
    /\ Side(arg.value, cache) = 16
    /\ IsBranch(res.value)
    /\ Side(res.value, cache) = 8

\* C6 as claimed: the result of the root of a square of side 2^n is the
\* root of its centre after 2^(n-1) generations.
C6_RoundTripAsClaimed ==
    (op = "expected" /\ square = Expected(world_buf.rows \div 2)) => res = world

\* C6: the result of the root of a square of side 2^n, n >= 2, is the handle
\* from_square returns, on the same Cache, for its centre after 2^(n-2)
\* generations.
C6_RoundTrip ==
    (op = "expected" /\ square = Expected(world_buf.rows \div 4)) => res = world

C6_Witness ==
    /\ op = "expected"
    /\ world_buf = Square(8, Glider8)
    /\ square = Expected(2)
    /\ square # Expected(0)
    /\ square # Expected(4)
    /\ res = world

\* C7: a result call leaves the Cache as it was, and a call on the receiver
\* of the call before returns what that call returned.
C7_IdempotentResult ==
    [][op' = "result" => (cache' = cache /\ (arg' = arg => res' = res))]_vars

C7_Witness ==
    /\ op = "result"
    /\ again
    /\ results = 2
    /\ IsBranch(arg.value)
    /\ res.some

\* S, alone on the plane, is unchanged by one generation
StillLife(S, n) == LifeStep(Pad(S, n, 1), n + 2) = Pad(S, n, 1)

\* C8: for a square S, of side >= 4, that is a still life, the result of
\* its root is the handle from_square returns for the unevolved centre of S.
C8_StillLife ==
    (op = "expected" /\ StillLife(ViewGrid(world_buf), world_buf.rows) /\ square = Expected(0))
        => res = world

C8_Witness ==
    /\ op = "expected"
    /\ world_buf = Square(16, ShipTie16)
    /\ StillLife(ViewGrid(world_buf), world_buf.rows)
    /\ square = Expected(0)
    /\ AnyAlive(Grid(world.value, cache))

\* C9: the result of the root of the all-dead square of side s >= 4 is all
\* dead and of side s/2: the all-dead Leaf for s = 4, and for s >= 8 the
\* handle from_square returns for the all-dead square of side s/2.
C9_EmptyPattern ==
    (ResultOfRoot /\ ~AnyAlive(ViewGrid(world_buf))) =>
        /\ res.some
        /\ ~AnyAlive(Grid(res.value, cache))
        /\ Depths(res.value, cache) = {d - 1 : d \in Depths(arg.value, cache)}
        /\ world_buf.rows = 4 => res.value = Leaf(Arr22(FALSE, FALSE, FALSE, FALSE))
        /\ (world_buf.rows >= 8 /\ op = "expected" /\ ~AnyAlive(ViewGrid(square)))
              => world = res

C9_Witness ==
    /\ op = "expected"
    /\ world_buf = Square(16, Dead)
    /\ square = Square(8, Dead)
    /\ world = res

\* not square, or side no power of two, or side < 2
IllShaped(v) == v.rows # v.cols \/ v.rows < 2 \/ ~(\E k \in 1..v.rows : 2^k = v.rows)

\* C10: from_square on an ill-shaped view panics, returns no MacroCell and
\* has inserted nothing into the Cache.
C10_ShapeViolation ==
    [][(op' = "from_square" /\ IllShaped(square')) =>
          /\ cache'.panic # NoPanic
          /\ world' = None
          /\ cache'.result = cache.result
          /\ cache'.rc = cache.rc
          /\ cache'.computed = cache.computed]_vars

C10_Witness ==
    /\ op = "from_square"
    /\ IllShaped(square)
    /\ square.rows = 3
    /\ square.cols = 3
    /\ cache.panic # NoPanic
    /\ calls = 2
    /\ Len(cache.rc) > 0

\* C11: result on a Leaf, whatever the Leaf and the Cache, returns None and
\* leaves the Cache as it was (no lookup, so no panic on an empty Cache);
\* result on a Branch interned in the Cache returns Some(..).
C11_LeafHasNoResult ==
    [][op' = "result" =>
          /\ IsLeaf(arg'.value) => (res' = None /\ cache' = cache)
          /\ IsBranch(arg'.value) => (res'.some /\ cache'.panic = NoPanic)]_vars

C11_Witness ==
    /\ op = "result"
    /\ arg = Some(Leaf(Arr22(TRUE, FALSE, TRUE, TRUE)))
    /\ res = None
    /\ Len(cache.rc) > 20
    /\ cache.panic = NoPanic

\* the grid of the result of a root, None when it has none
ResultGrid(w, m) ==
    LET r == MacroCell_result(w.value, m)
    IN  IF r.opt.some THEN Some(Grid(r.opt.value, r.m)) ELSE None

\* C12: roots built from equal grids on two independent Caches, whatever
\* each Cache was used for before, represent the same grid and so do their
\* results; on one Cache, a from_square call on the grid of the call before
\* returns the handle that call returned; a call on one Cache leaves the
\* other Cache as it was.
C12_CacheIndependence ==
    [][/\ (world'.some /\ other'.world.some /\ ViewGrid(square') = ViewGrid(other'.square)) =>
              /\ Grid(world'.value, cache') = Grid(other'.world.value, other'.cache)
              /\ Grid(world'.value, cache') = ViewGrid(square')
              /\ ResultGrid(world', cache') = ResultGrid(other'.world, other'.cache)
       /\ (world.some /\ ViewGrid(square') = ViewGrid(square)) => world' = world
       /\ (other.world.some /\ ViewGrid(other'.square) = ViewGrid(other.square))
              => other'.world = other.world
       /\ cache' = cache \/ other'.cache = other.cache]_vars

C12_Witness ==
    /\ op = "from_square"
    /\ other.op = "from_square"
    /\ square = Square(8, Glider8)
    /\ other.square = Glider8Window
    /\ world.some /\ other.world.some
    /\ world.value # other.world.value
    /\ cache.rc # other.cache.rc
    /\ Len(cache.rc) > 20
    /\ Len(other.cache.rc) > 5
    /\ Grid(world.value, cache) = Grid(other.world.value, other.cache)

\* every Branch record constructed so far: those behind an Rc and those
\* compute_result was invoked on (a record passed to new_result is one of
\* these: equal to a key on a hit, computed on a miss)
Records == {cache.rc[k] : k \in 1..Len(cache.rc)}
             \cup {cache.computed[k] : k \in 1..Len(cache.computed)}

Children(branch) == {branch.branches[i][j] : i \in 0..1, j \in 0..1}

\* C13: every Branch record constructed has four Leaves or four Branches as
\* its children, and no call panicked in the unreachable! arm of
\* map_branches.
C13_Homogeneity ==
    /\ \A branch \in Records :
          \/ \A c \in Children(branch) : IsLeaf(c)
          \/ \A c \in Children(branch) : IsBranch(c)
    /\ cache.panic # "unreachable: branch has mix of branches and leaves as children"
    /\ (op \in {"from_square", "expected"} /\ ~IllShaped(square)) => cache.panic = NoPanic

C13_Witness ==
    /\ op = "from_square"
    /\ calls = 2
    /\ square = Square(16, ShipTie16)
    /\ cache.panic = NoPanic
    /\ \E branch \in Records : \A c \in Children(branch) : IsLeaf(c)
    /\ \E branch \in Records :
          \A c \in Children(branch) :
              IsBranch(c) /\ \A d \in Children(cache.rc[c.ptr]) : IsBranch(d)

\* the stored result of the key equal to a record
Lookup(branch, m) == m.result[CHOOSE k \in MatchingKeys(m, branch) : TRUE]

\* the nine shifted_results of a key with Branch children, looked up in the
\* Cache the way compute_result requested them
ShiftedResults(k, m) ==
    LET b == [i \in 0..1 |-> [j \in 0..1 |-> m.rc[k].branches[i][j].ptr]]
        h(l, r) == Lookup(MacroCellBranch(horizontal_shift_quadrants(l, r, m)), m)
        v(t, u) == Lookup(MacroCellBranch(vertical_shift_quadrants(t, u, m)), m)
    IN  << << m.result[b[0][0]], h(b[0][0], b[0][1]), m.result[b[0][1]] >>,
           << v(b[0][0], b[1][0]),
              Lookup(MacroCellBranch(corner_shift_quadrants(b, m)), m),
              v(b[0][1], b[1][1]) >>,
           << m.result[b[1][0]], h(b[1][0], b[1][1]), m.result[b[1][1]] >> >>

\* the keys whose children are Branches
BranchKeys == {k \in DOMAIN cache.result : IsBranch(cache.rc[k].branches[0][0])}

\* C14: the four children of every Branch record that is a key or was
\* passed to new_result have one and the same side, the record twice that;
\* the nine shifted_results of a record have one and the same side, a
\* quarter of the record's.
C14_UniformDepth ==
    /\ \A branch \in Records :
          \E d \in 0..Len(cache.rc) : \A c \in Children(branch) : Depths(c, cache) = {d}
    /\ \A k \in 1..Len(cache.rc) :
          \E d \in 0..Len(cache.rc) :
              /\ Depths(Branch(k), cache) = {d + 1}
              /\ \A c \in Children(cache.rc[k]) : Depths(c, cache) = {d}
              /\ Side(Branch(k), cache) = 2 * Side(cache.rc[k].branches[1][1], cache)
    /\ cache.panic = NoPanic =>
          \A k \in BranchKeys :
              LET R == ShiftedResults(k, cache)
              IN  \A i, j \in 1..3 : 4 * Side(R[i][j], cache) = Side(Branch(k), cache)
                                        /\ Cardinality(Depths(R[i][j], cache)) = 1

C14_Witness ==
    /\ op = "from_square"
    /\ square = Square(16, ShipTie16)
    /\ cache.panic = NoPanic
    /\ \E k \in BranchKeys :
          /\ Side(Branch(k), cache) = 16
          /\ \A i, j \in 1..3 : Side(ShiftedResults(k, cache)[i][j], cache) = 4
    /\ \E k \in BranchKeys :
          /\ Side(Branch(k), cache) = 8
          /\ \A i, j \in 1..3 : IsLeaf(ShiftedResults(k, cache)[i][j])

\* the handles a client or the Cache holds: every Rc allocated, the children
\* of the keys, the stored results, and the cells of the client
LiveHandles ==
    {c.ptr : c \in {c \in UNION {Children(cache.rc[k]) : k \in 1..Len(cache.rc)}
                            \cup {cache.result[k] : k \in DOMAIN cache.result}
                            \cup {o.value : o \in {o \in {world, res, arg} : o.some}} :
                      IsBranch(c)}}
      \cup (1..Len(cache.rc))

\* C15: between from_square calls, every handle that exists is a key of the
\* Cache with a stored result, so the lookup of CachedMacroCellBranch::result
\* fails neither for the client nor for compute_result's own lookups of the
\* four children's results.
C15_CacheClosure ==
    /\ LiveHandles \subseteq DOMAIN cache.result
    /\ \A h \in LiveHandles : MatchingKeys(cache, cache.rc[h]) = {h}
    /\ cache.panic # "index: key not found"
    /\ cache.panic = NoPanic =>
          /\ \A h \in LiveHandles : MacroCell_result(Branch(h), cache).opt.some
          /\ \A k \in BranchKeys : \A c \in Children(cache.rc[k]) :
                MacroCell_result(c, cache) = [m |-> cache, opt |-> Some(cache.result[c.ptr])]

C15_Witness ==
    /\ op = "result"
    /\ calls = 2
    /\ IsBranch(res.value)
    /\ res.value.ptr \in LiveHandles
    /\ Cardinality(LiveHandles) > 30
    /\ \E k \in BranchKeys : IsBranch(cache.result[k])

\* C16: no step removes an entry of the Cache or replaces a key's record or
\* its stored result, and every insert of new_result added a key: there are
\* as many keys as Rcs allocated and as compute_result calls returned.
C16_MonotonicCache ==
    [][/\ \A k \in DOMAIN cache.result :
             /\ k \in DOMAIN cache'.result
             /\ cache'.result[k] = cache.result[k]
             /\ cache'.rc[k] = cache.rc[k]
       /\ Len(cache'.rc) >= Len(cache.rc)
       /\ Cardinality(DOMAIN cache'.result) = Len(cache'.rc)
       /\ cache'.panic = NoPanic => Len(cache'.computed) = Len(cache'.rc)]_vars

C16_Witness ==
    /\ calls = 2
    /\ op = "from_square"
    /\ square = Square(8, Glider8)
    /\ cache.hits > 0
    /\ Cardinality(DOMAIN cache.result) > 40

\* C17: from_square on a valid square returns; every new_result call made
\* while compute_result of a record of side s runs is on a record of side
\* smaller than s; records of four Leaves (side 4) make no nested call; no
\* record is requested while its own compute_result runs, and none is left
\* running when from_square has returned.
C17_Termination ==
    /\ (op \in {"from_square", "expected", "warm"} /\ ~IllShaped(square)) =>
          (cache.panic = NoPanic /\ world.some /\ Side(world.value, cache) = square.rows)
    /\ \A p \in cache.nested : p[2] < p[1] /\ p[1] >= 8 /\ p[2] >= 4
    /\ ~cache.reentered
    /\ cache.panic = NoPanic => cache.active = {}

C17_Witness ==
    /\ op = "from_square"
    /\ square = Square(16, ShipTie16)
    /\ world.some
    /\ cache.nested = {<<16, 8>>, <<16, 4>>, <<8, 4>>}

\* the record get_overlap_result(i, j) composes for the key k
Composition(k, i, j) ==
    LET R == ShiftedResults(k, cache)
    IN  MacroCellBranch(overlap_quadrants([a \in 0..2 |-> [b \in 0..2 |-> R[a + 1][b + 1]]], i, j))

\* the children of the Branch stored as the result of the key k
FinalQuadrants(k) == cache.rc[cache.result[k].ptr].branches

\* C18 as claimed: the children of the Branch compute_result returns are the
\* interned compositions of the shifted_results themselves.
C18_FinalQuadrantsAsClaimed ==
    cache.panic = NoPanic =>
        \A k \in BranchKeys : \A i, j \in 0..1 :
            /\ IsBranch(FinalQuadrants(k)[i][j])
            /\ FinalQuadrants(k)[i][j].ptr \in MatchingKeys(cache, Composition(k, i, j))

\* C18: the four compositions of the shifted_results are interned, and the
\* children of the Branch compute_result returns are the results of these
\* four compositions, each of a quarter of the record's side.
C18_FinalQuadrants ==
    cache.panic = NoPanic =>
        \A k \in BranchKeys :
            /\ IsBranch(cache.result[k])
            /\ \A i, j \in 0..1 :
                  /\ MatchingKeys(cache, Composition(k, i, j)) # {}
                  /\ FinalQuadrants(k)[i][j] = Lookup(Composition(k, i, j), cache)
                  /\ 4 * Side(FinalQuadrants(k)[i][j], cache) = Side(Branch(k), cache)

C18_Witness ==
    /\ op = "from_square"
    /\ square = Square(16, ShipTie16)
    /\ cache.panic = NoPanic
    /\ \E k \in BranchKeys :
          /\ world = Some(Branch(k))
          /\ FinalQuadrants(k)[0][1] # FinalQuadrants(k)[1][0]
          /\ \A i, j \in 0..1 :
                /\ IsBranch(FinalQuadrants(k)[i][j])
                /\ FinalQuadrants(k)[i][j] = Lookup(Composition(k, i, j), cache)

\* C19 as claimed: from_square runs no compute_result, and the first result
\* call on a root of side >= 4 does.
C19_EvaluationOnResultAsClaimed ==
    [][/\ op' = "from_square" => cache'.computed = cache.computed
       /\ (op' = "result" /\ results = 0 /\ world_buf' # NoSquare /\ world_buf'.rows >= 4)
             => cache'.computed # cache.computed]_vars

\* C19: from_square evaluates: when it returns a Branch, the result of that
\* Branch and of every record interned is stored, and compute_result ran for
\* every record that is new; result runs no compute_result and no
\* new_result, and returns what was stored before the call.
C19_EvaluationOnFromSquare ==
    [][/\ (op' \in {"from_square", "expected"} /\ world'.some /\ IsBranch(world'.value)) =>
             /\ world'.value.ptr \in DOMAIN cache'.result
             /\ Len(cache'.computed) = Cardinality(DOMAIN cache'.result)
             /\ Len(cache'.computed) - Len(cache.computed) = Len(cache'.rc) - Len(cache.rc)
             /\ world'.value.ptr > Len(cache.rc) => Len(cache'.computed) > Len(cache.computed)
       /\ op' = "result" =>
             /\ cache'.computed = cache.computed
             /\ cache'.hits = cache.hits
             /\ cache'.result = cache.result
             /\ IsBranch(arg'.value) => res' = Some(cache.result[arg'.value.ptr])]_vars

C19_Witness ==
    /\ op = "result"
    /\ results = 1
    /\ calls = 1
    /\ world_buf = Square(16, ShipTie16)
    /\ res.some
    /\ Len(cache.computed) > 20
    /\ cache.result[arg.value.ptr] = res.value

\* the structurally distinct records of a Cache with their results, each as
\* the grid it represents
CacheContent(m) ==
    {<<RecordGrid(m.rc[k], m), Grid(m.result[k], m)>> : k \in DOMAIN m.result}

\* C20: from_square on one square, evaluated in the order of the source and
\* in another order of the quadrants, of the nine shifted_results and of the
\* four overlap compositions, returns MacroCells of the same grid with the
\* same result, and leaves Caches with the same number of records, the same
\* records and the same results; in the order of the source, the very same
\* Cache.
C20_SiblingOrder ==
    other.op = "from_square" =>
        /\ other.cache.panic = NoPanic
        /\ other.world.some
        /\ Grid(other.world.value, other.cache) = Grid(world.value, cache)
        /\ ResultGrid(other.world, other.cache) = ResultGrid(world, cache)
        /\ Cardinality(DOMAIN other.cache.result) = Cardinality(DOMAIN cache.result)
        /\ CacheContent(other.cache) = CacheContent(cache)
        /\ other.order = SourceOrder => (other.cache = cache /\ other.world = world)

C20_Witness ==
    /\ other.op = "from_square"
    /\ square = Square(16, ShipTie16)
    /\ other.order.calls = <<9, 8, 7, 6, 5, 4, 3, 2, 1, 13, 12, 11, 10, 14>>
    /\ other.order.quadrants = <<3, 2, 1, 0>>
    /\ other.cache.rc # cache.rc
    /\ other.world.some
    /\ Grid(other.world.value, other.cache) = Grid(world.value, cache)
    /\ CacheContent(other.cache) = CacheContent(cache)

====
